---- MODULE Spec2Model ----
\* A model of annotation.py: the FrameNet full-text parser (parse_fulltext),
\* the offset aligner (align_annotation_with_sentence with its nested
\* correct_pos) and the annotation distributor (distribute_annotations).
\*
\* Three specifications share the variables below:
\*   SpecScan  - the two-pointer loop of the aligner, one iteration per step,
\*               followed by correct_pos queries on the recorded gaps;
\*   SpecAlign - align_annotation_with_sentence as one call, on a sentence
\*               and a retokenized form of it;
\*   SpecPipe  - parse_fulltext on a document, then distribute_annotations on
\*               the records it returned, one record per step.
\* Python indices are 0-based; a string is a sequence of characters and
\* s[i] in Python is s[i + 1] here (CharAt).
EXTENDS Integers, Sequences, FiniteSets, TLC

\* ------------------------------------------------------------------ bounds
MaxLen == 2        \* longest original sentence
MaxNewLen == 3     \* longest retokenized sentence
MaxSpans == 2      \* spans (targets plus frame elements) in an annotation list
MaxSents == 2      \* sentence elements in a document
MaxSets == 2       \* annotationSet elements in a document

Chars == {"a", "b"}

StringsUpTo(n) == UNION {[1..k -> Chars] : k \in 0..n}

VARIABLES
  sent,         \* align_annotation_with_sentence: argument sent
  new_sent,     \* argument new_sent
  annotations,  \* argument annotations
  i, j,         \* the two cursors of the scan
  gaps,         \* the gap list
  iters,        \* iterations of the while loop executed so far
  qpos, qres,   \* the last correct_pos call: its argument and its outcome
  result,       \* what align_annotation_with_sentence returned or raised
  pc,           \* position in the function being executed
  doc,          \* parse_fulltext: the namespace-free document
  records,      \* what parse_fulltext returned
  dir_exists,   \* distribute_annotations: output_dir is known to exist
  files,        \* the files of output_dir: file name -> content
  didx          \* records already written by distribute_annotations

alignVars == <<sent, new_sent, annotations, i, j, gaps, iters, qpos, qres, result>>
pipeVars == <<doc, records, dir_exists, files, didx>>
vars == <<sent, new_sent, annotations, i, j, gaps, iters, qpos, qres, result,
          pc, doc, records, dir_exists, files, didx>>

\* ------------------------------------------------------- namedtuples (11-13)
Target(start, end) == [start |-> start, end |-> end]
FrameElement(start, end, name) == [start |-> start, end |-> end, name |-> name]
Annotation(id, sent_id, frame_name, target, FE) ==
  [id |-> id, sent_id |-> sent_id, frame_name |-> frame_name, target |-> target, FE |-> FE]

\* --------------------------------------------------------- the aligner scan
CharAt(s, idx) == s[idx + 1]

\* while i < len(sent) and j < len(new_sent)
LoopCond(s, n, st) == st.i < Len(s) /\ st.j < Len(n)

\* A slip: the cursor i moves on a mismatch as well.
ScanStepBothAdvance(s, n, st) ==
  IF CharAt(s, st.i) # CharAt(n, st.j)
  THEN [i |-> st.i + 1, j |-> st.j + 1, gaps |-> Append(st.gaps, st.i)]
  ELSE [i |-> st.i + 1, j |-> st.j + 1, gaps |-> st.gaps]

\* One iteration of the loop body.
ScanStep(s, n, st) ==
  IF CharAt(s, st.i) # CharAt(n, st.j)
  THEN [i |-> st.i, j |-> st.j + 1, gaps |-> Append(st.gaps, st.i)]
  ELSE [i |-> st.i + 1, j |-> st.j + 1, gaps |-> st.gaps]

RECURSIVE ScanFrom(_, _, _)
ScanFrom(s, n, st) ==
  IF LoopCond(s, n, st) THEN ScanFrom(s, n, ScanStep(s, n, st)) ELSE st

\* gaps = [], i, j = 0, 0 and the loop run to its end: the gap list.
Scan(s, n) == ScanFrom(s, n, [i |-> 0, j |-> 0, gaps |-> <<>>]).gaps

\* ------------------------------------------------------------- correct_pos
\* The outcome of a call: a returned value, or the exception it raised.
Returned(v) == [exc |-> "none", value |-> v]
Raised(e) == [exc |-> e, value |-> 0]

\* A slip: the comparison admits equality, so a gap at pos itself is not counted.
RECURSIVE correct_pos_le(_, _, _)
correct_pos_le(g, pos, k) ==
  IF k < Len(g)
  THEN IF pos <= g[k + 1] THEN Returned(pos + k) ELSE correct_pos_le(g, pos, k + 1)
  ELSE IF k = 0 THEN Raised("UnboundLocalError") ELSE Returned(pos + (k - 1) + 1)

\* A slip: one too many after the loop.
RECURSIVE correct_pos_plus2(_, _, _)
correct_pos_plus2(g, pos, k) ==
  IF k < Len(g)
  THEN IF pos < g[k + 1] THEN Returned(pos + k) ELSE correct_pos_plus2(g, pos, k + 1)
  ELSE IF k = 0 THEN Raised("UnboundLocalError") ELSE Returned(pos + (k - 1) + 2)

\* for i in xrange(len(gaps)): if pos < gaps[i]: return pos + i
\* return pos + i + 1
\* k is the next value of the loop variable. The loop variable is local to
\* correct_pos; when gaps is empty the loop never binds it and the final
\* return raises UnboundLocalError. Otherwise it holds len(gaps) - 1 there.
RECURSIVE correct_pos_from(_, _, _)
correct_pos_from(g, pos, k) ==
  IF k < Len(g)
  THEN IF pos < g[k + 1] THEN Returned(pos + k) ELSE correct_pos_from(g, pos, k + 1)
  ELSE IF k = 0 THEN Raised("UnboundLocalError") ELSE Returned(pos + (k - 1) + 1)

correct_pos(g, pos) == correct_pos_from(g, pos, 0)

\* ------------------------------------------ align_annotation_with_sentence
\* The offsets correct_pos is called on for one annotation.
RECURSIVE FEOffsets(_)
FEOffsets(fes) ==
  IF fes = <<>> THEN {} ELSE {Head(fes).start, Head(fes).end} \cup FEOffsets(Tail(fes))

AnnOffsets(ann) == {ann.target.start, ann.target.end} \cup FEOffsets(ann.FE)

CorrectAnn(g, ann) ==
  Annotation(ann.id, ann.sent_id, ann.frame_name,
             Target(correct_pos(g, ann.target.start).value,
                    correct_pos(g, ann.target.end).value),
             [k \in 1..Len(ann.FE) |->
                FrameElement(correct_pos(g, ann.FE[k].start).value,
                             correct_pos(g, ann.FE[k].end).value,
                             ann.FE[k].name)])

\* Lines 134-160: the scan, then correct_pos on every offset of every
\* annotation; an exception in any call leaves the function.
GeneralAlign(s, n, anns) ==
  LET g == Scan(s, n) IN
  IF \E k \in 1..Len(anns) : \E pos \in AnnOffsets(anns[k]) :
        correct_pos(g, pos).exc # "none"
  THEN [exc |-> "UnboundLocalError", anns |-> <<>>]
  ELSE [exc |-> "none", anns |-> [k \in 1..Len(anns) |-> CorrectAnn(g, anns[k])]]

\* Lines 131-160.
align_annotation_with_sentence(s, n, anns) ==
  IF s = n THEN [exc |-> "none", anns |-> anns] ELSE GeneralAlign(s, n, anns)

\* ------------------------------------------------------- the document
\* An element's attributes: the set of attribute names present (has) and the
\* value of each; start and end are decimal strings, written as digit
\* sequences, and <<>> where the attribute is absent.
Label(has, start, end, name) == [has |-> has, start |-> start, end |-> end, name |-> name]
Layer(name, labels) == [name |-> name, labels |-> labels]
AnnotationSet(ID, status, frameName, layers) ==
  [ID |-> ID, status |-> status, frameName |-> frameName, layers |-> layers]
Sentence(ID, text, sets) == [ID |-> ID, text |-> text, sets |-> sets]

\* int(): the value of a decimal string.
RECURSIVE int(_)
int(ds) == IF ds = <<>> THEN 0 ELSE 10 * int(SubSeq(ds, 1, Len(ds) - 1)) + ds[Len(ds)]

RECURSIVE Concat(_)
Concat(seqs) == IF seqs = <<>> THEN <<>> ELSE Head(seqs) \o Concat(Tail(seqs))

\* a.xpath('layer[@name="<name>"]/label'): the label children of the layer
\* children called name, in document order.
XPathLabels(a, name) ==
  Concat([k \in 1..Len(a.layers) |->
            IF a.layers[k].name = name THEN a.layers[k].labels ELSE <<>>])

\* A slip: the not(@itype) predicate is missing from the path.
FELabelsAnyItype(a) == XPathLabels(a, "FE")

\* a.xpath('layer[@name="FE"]/label[not(@itype)]')
FELabels(a) == SelectSeq(XPathLabels(a, "FE"), LAMBDA l : "itype" \notin l.has)

\* Lines 91-96: the frame elements of an annotationSet.
ParseFE(a) ==
  LET explicit == SelectSeq(FELabels(a), LAMBDA l : "start" \in l.has) IN
  [k \in 1..Len(explicit) |->
     FrameElement(int(explicit[k].start), int(explicit[k].end), explicit[k].name)]

\* A slip: the first target label is taken whenever there is one.
ParseSetFirstTarget(sent_id, a) ==
  LET target_label == XPathLabels(a, "Target") IN
  IF Len(target_label) >= 1
  THEN <<Annotation(a.ID, sent_id, a.frameName,
                    Target(int(target_label[1].start), int(target_label[1].end)),
                    ParseFE(a))>>
  ELSE <<>>

\* Lines 81-107, the body of the loop over the MANUAL annotationSets: the
\* annotations it appends, none when the set is skipped by `continue`.
ParseSet(sent_id, a) ==
  LET target_label == XPathLabels(a, "Target") IN
  IF Len(target_label) = 1
  THEN <<Annotation(a.ID, sent_id, a.frameName,
                    Target(int(target_label[1].start), int(target_label[1].end)),
                    ParseFE(a))>>
  ELSE <<>>

\* sent.xpath('annotationSet[@status="MANUAL"]')
ManualSets(s) == SelectSeq(s.sets, LAMBDA a : a.status = "MANUAL")

\* A slip: every sentence is kept, annotated or not.
ParseSentenceKeepAll(s) ==
  LET manual == ManualSets(s)
      anns == Concat([k \in 1..Len(manual) |-> ParseSet(s.ID, manual[k])])
  IN <<<<s.text, anns>>>>

\* Lines 77-109, the body of the loop over the sentences: the records it
\* appends to result.
ParseSentence(s) ==
  LET manual == ManualSets(s)
      anns == Concat([k \in 1..Len(manual) |-> ParseSet(s.ID, manual[k])])
  IN IF Len(anns) > 0 THEN <<<<s.text, anns>>>> ELSE <<>>

parse_fulltext(d) == Concat([k \in 1..Len(d) |-> ParseSentence(d[k])])

\* ----------------------------------------------------- documents to parse
Attrs == {"start", "end", "name"}
tA == Label(Attrs, <<5>>, <<1, 6>>, "Target")
tB == Label(Attrs, <<3, 5>>, <<3, 8>>, "Target")
e1 == Label(Attrs, <<0>>, <<3>>, "Donor")
e2 == Label(Attrs, <<1, 8>>, <<2, 8>>, "Recipient")
ni == Label({"itype", "name"}, <<>>, <<>>, "Theme")
nis == Label(Attrs \cup {"itype"}, <<4, 0>>, <<6, 1>>, "Value")
bare == Label({"name"}, <<>>, <<>>, "Means")

LayerConfigs ==
  { <<Layer("Target", <<tA>>), Layer("FE", <<e1, ni, e2>>)>>,
    <<Layer("Target", <<tA, tB>>), Layer("FE", <<e1>>)>>,
    <<Layer("Target", <<tA>>), Layer("FE", <<e1>>), Layer("Target", <<tB>>)>>,
    <<Layer("FE", <<e1>>)>>,
    <<Layer("Target", <<>>), Layer("FE", <<e2>>)>>,
    <<Layer("Target", <<tB>>), Layer("FE", <<ni, bare, nis>>)>>,
    <<Layer("FE", <<e2>>), Layer("PT", <<e1>>), Layer("Target", <<tA>>), Layer("FE", <<nis, e1>>)>> }

SetConfigs ==
  {[status |-> "MANUAL", layers |-> l] : l \in LayerConfigs} \cup
  {[status |-> "UNANN", layers |-> <<Layer("Target", <<tA>>), Layer("FE", <<e1, ni, e2>>)>>]}

\* ID attributes are numerals; an ID is written as the number it spells.
SentIDs == {1281539, 1278414}

\* Sequences of exactly n annotationSets; the ID attributes count up from first.
RECURSIVE SetSeqs(_, _)
SetSeqs(n, first) ==
  IF n = 0 THEN {<<>>}
  ELSE {<<AnnotationSet(first, c.status, "Giving", c.layers)>> \o r :
          c \in SetConfigs, r \in SetSeqs(n - 1, first + 1)}

\* The sentence elements that can come next in a document: any ID, up to k
\* annotationSets whose IDs count up from first; no two texts are alike.
NextSentences(k, first, no) ==
  UNION {{Sentence(id, <<"text", no>>, sets) : id \in SentIDs, sets \in SetSeqs(m, first)} :
           m \in 0..k}

\* ------------------------------------------------- distribute_annotations
FileName(stem, ext) == <<stem, ext>>

\* open(name, 'w') and a write: the file is created or overwritten.
WriteFile(fs, name, content) == [n \in DOMAIN fs \cup {name} |-> IF n = name THEN content ELSE fs[n]]

\* Lines 194-196: one .ann file per annotation of the record.
RECURSIVE WriteAnns(_, _)
WriteAnns(fs, anns) ==
  IF anns = <<>> THEN fs
  ELSE WriteAnns(WriteFile(fs, FileName(Head(anns).id, ".ann"), Head(anns)), Tail(anns))

\* A slip: only the first annotation of the record is written.
WriteRecordFirstAnn(fs, rec) ==
  LET text == rec[1]
      anns == rec[2]
      sent_id == anns[1].sent_id
  IN WriteAnns(WriteFile(fs, FileName(sent_id, ".txt"), text), <<anns[1]>>)

\* Lines 186-196, the body of the loop over the records.
WriteRecord(fs, rec) ==
  LET text == rec[1]
      anns == rec[2]
      sent_id == anns[1].sent_id
  IN WriteAnns(WriteFile(fs, FileName(sent_id, ".txt"), text), anns)

\* ------------------------------------------------- inputs of the aligner
\* The ways of obtaining n from s by insertions only: for each character of s
\* the (0-based) index in n of the character it became.
Embeddings(s, n) ==
  {f \in [1..Len(s) -> 0..Len(n) - 1] :
     /\ \A k \in 1..Len(s) : CharAt(n, f[k]) = s[k]
     /\ \A k \in 1..Len(s) - 1 : f[k] < f[k + 1]}

InsertionOnly(s, n) == Embeddings(s, n) # {}

\* The retokenized forms of s: s with characters inserted, as joining the
\* tokens of s with separators gives.
Retokenizations(s) == {n \in StringsUpTo(MaxNewLen) : InsertionOnly(s, n)}

\* Spans over the original sentence: inclusive character offsets, start <= end,
\* the end of the sentence included.
Spans(s) == UNION {{Target(a, b) : b \in a..Len(s)} : a \in 0..Len(s)}

RECURSIVE FESeqs(_, _)
FESeqs(s, f) ==
  IF f = 0 THEN {<<>>}
  ELSE {<<FrameElement(sp.start, sp.end, "Role")>> \o r : sp \in Spans(s), r \in FESeqs(s, f - 1)}

\* Annotation lists holding at most k spans in all.
RECURSIVE AnnLists(_, _)
AnnLists(s, k) ==
  {<<>>} \cup
  UNION {{<<Annotation("1", "1", "Frame", t, fe)>> \o rest :
             t \in Spans(s), fe \in FESeqs(s, f), rest \in AnnLists(s, k - 1 - f)} :
           f \in 0..k - 1}

NoResult == [exc |-> "none", anns |-> <<>>]
NoQuery == Returned(0)

AlignIdle ==
  /\ i = 0 /\ j = 0 /\ gaps = <<>> /\ iters = 0
  /\ qpos = 0 /\ qres = NoQuery /\ result = NoResult

PipeIdle ==
  /\ doc = <<>> /\ records = <<>> /\ dir_exists = FALSE
  /\ files = <<>> /\ didx = 0

\* ------------------------------------------------------------- SpecScan
InitScan ==
  /\ sent \in StringsUpTo(MaxLen)
  /\ new_sent \in StringsUpTo(MaxNewLen)
  /\ annotations = <<>>
  /\ pc = "start"
  /\ AlignIdle /\ PipeIdle

Cursor == [i |-> i, j |-> j, gaps |-> gaps]

\* if sent == new_sent: return annotations
FastPath ==
  /\ pc = "start" /\ sent = new_sent
  /\ result' = [exc |-> "none", anns |-> annotations]
  /\ pc' = "done"
  /\ UNCHANGED <<sent, new_sent, annotations, i, j, gaps, iters, qpos, qres>>
  /\ UNCHANGED pipeVars

\* gaps = []; i, j = 0, 0
EnterScan ==
  /\ pc = "start" /\ sent # new_sent
  /\ gaps' = <<>> /\ i' = 0 /\ j' = 0
  /\ pc' = "scan"
  /\ UNCHANGED <<sent, new_sent, annotations, iters, qpos, qres, result>>
  /\ UNCHANGED pipeVars

ScanIteration ==
  /\ pc = "scan" /\ LoopCond(sent, new_sent, Cursor)
  /\ LET st == ScanStep(sent, new_sent, Cursor) IN
       i' = st.i /\ j' = st.j /\ gaps' = st.gaps
  /\ iters' = iters + 1
  /\ UNCHANGED <<sent, new_sent, annotations, qpos, qres, result, pc>>
  /\ UNCHANGED pipeVars

\* if sent[i] != new_sent[j]: gaps.append(i); j += 1
ScanMismatch ==
  /\ pc = "scan" /\ LoopCond(sent, new_sent, Cursor)
  /\ CharAt(sent, i) # CharAt(new_sent, j)
  /\ ScanIteration

\* else: i += 1; j += 1
ScanMatch ==
  /\ pc = "scan" /\ LoopCond(sent, new_sent, Cursor)
  /\ CharAt(sent, i) = CharAt(new_sent, j)
  /\ ScanIteration

ExitLoop ==
  /\ pc = "scan" /\ ~LoopCond(sent, new_sent, Cursor)
  /\ pc' = "scanned"
  /\ UNCHANGED <<sent, new_sent, annotations, i, j, gaps, iters, qpos, qres, result>>
  /\ UNCHANGED pipeVars

\* A call of correct_pos on an offset valid in the original sentence.
Query(pos) ==
  /\ pc \in {"scanned", "queried"}
  /\ qpos' = pos
  /\ qres' = correct_pos(gaps, pos)
  /\ pc' = "queried"
  /\ UNCHANGED <<sent, new_sent, annotations, i, j, gaps, iters, result>>
  /\ UNCHANGED pipeVars

NextScan ==
  \/ FastPath
  \/ EnterScan
  \/ ScanMismatch
  \/ ScanMatch
  \/ ExitLoop
  \/ \E pos \in 0..Len(sent) : Query(pos)

SpecScan == InitScan /\ [][NextScan]_vars

\* ------------------------------------------------------------- SpecAlign
InitAlign ==
  /\ sent = <<>> /\ new_sent = <<>> /\ annotations = <<>>
  /\ pc = "idle"
  /\ AlignIdle /\ PipeIdle

\* One call of align_annotation_with_sentence(s, n, anns).
Align(s, n, anns) ==
  /\ pc = "idle"
  /\ sent' = s /\ new_sent' = n /\ annotations' = anns
  /\ result' = align_annotation_with_sentence(s, n, anns)
  /\ pc' = "returned"
  /\ UNCHANGED <<i, j, gaps, iters, qpos, qres>>
  /\ UNCHANGED pipeVars

\* The sentence of an annotation holds at least the characters of its target.
NextAlign ==
  /\ pc = "idle"
  /\ \E s \in StringsUpTo(MaxLen) \ {<<>>} : \E n \in Retokenizations(s) :
       \E anns \in AnnLists(s, MaxSpans) : Align(s, n, anns)

SpecAlign == InitAlign /\ [][NextAlign]_vars

\* ------------------------------------------------ properties of the aligner
Prefix(s, k) == SubSeq(s, 1, k)

NonDecreasing(g) == \A k \in 1..Len(g) - 1 : g[k] <= g[k + 1]

ScanInv ==
  pc \in {"scan", "scanned", "queried"} =>
    /\ j = i + Len(gaps)
    /\ 0 <= i /\ i <= Len(sent)
    /\ 0 <= j /\ j <= Len(new_sent)
    /\ NonDecreasing(gaps)
    /\ \A k \in 1..Len(gaps) : gaps[k] \in 0..Len(sent) - 1
    /\ InsertionOnly(Prefix(sent, i), Prefix(new_sent, j))
    /\ iters <= Len(new_sent)

\* C10: in every state of the two-pointer loop, for any two input strings,
\* j = i + len(gaps), both cursors are within their strings, the gap list is
\* non-decreasing with entries in 0..len(sent)-1, the first i characters of
\* sent are a subsequence of the first j characters of new_sent; every
\* iteration raises j by exactly one, so there are at most len(new_sent).
C10_ScanInvariant ==
  /\ []ScanInv
  /\ [][(pc = "scan" /\ pc' = "scan") => (j' = j + 1 /\ iters' = iters + 1)]_vars

C10_Witness ==
  pc = "scanned" /\ Len(gaps) >= 1 /\ i >= 1 /\ iters = Len(new_sent)

GapsBelow(g, pos) == Cardinality({k \in 1..Len(g) : g[k] < pos})
GapsUpTo(g, pos) == Cardinality({k \in 1..Len(g) : g[k] <= pos})

\* C8 as stated: what correct_pos(pos) returns is pos plus the number of
\* recorded gaps strictly less than pos.
C8_StrictlyLess ==
  (pc = "queried" /\ qres.exc = "none") => qres.value = qpos + GapsBelow(gaps, qpos)

\* C8 amended: on a non-empty gap list correct_pos(pos) returns pos plus the
\* number of recorded gaps less than or equal to pos; on an empty gap list it
\* raises UnboundLocalError.
C8_AtOrBelow ==
  pc = "queried" =>
    IF gaps = <<>>
    THEN qres.exc = "UnboundLocalError"
    ELSE qres = Returned(qpos + GapsUpTo(gaps, qpos))

C8_Witness ==
  /\ pc = "queried" /\ Len(gaps) >= 2
  /\ \E k \in 1..Len(gaps) : gaps[k] = qpos
  /\ \E k \in 1..Len(gaps) : gaps[k] > qpos
  /\ qres = Returned(qpos + 1)

\* C1: when new_sent is sent with characters inserted, correct_pos(pos) for
\* 0 <= pos < len(sent) is the index in new_sent of the character sent[pos]
\* became, whatever the insertion points were; in particular
\* new_sent[correct_pos(pos)] = sent[pos].
C1_RoundTrip ==
  (pc = "queried" /\ qpos < Len(sent)) =>
    \A f \in Embeddings(sent, new_sent) :
      /\ qres = Returned(f[qpos + 1])
      /\ CharAt(new_sent, qres.value) = CharAt(sent, qpos)

ValidSpan(sp, s) == 0 <= sp.start /\ sp.start <= sp.end /\ sp.end <= Len(s)

ValidAnnotations(anns, s) ==
  \A k \in 1..Len(anns) :
    /\ ValidSpan(anns[k].target, s)
    /\ \A m \in 1..Len(anns[k].FE) : ValidSpan(anns[k].FE[m], s)

C3_Idempotence ==
  (pc = "returned" /\ sent = new_sent) =>
    /\ result = [exc |-> "none", anns |-> annotations]
    /\ GeneralAlign(sent, new_sent, annotations) = result

\* C9: characters of new_sent after the one matched to the last character of
\* sent record no gap; aligning against r followed by a non-empty suffix gives
\* the same offsets as aligning against r, for every insertion-only r; and when
\* no gap is recorded the returned offsets equal the input offsets.
C9_TrailingInsertions ==
  (pc = "returned" /\ InsertionOnly(sent, new_sent)) =>
    /\ \A k \in 0..Len(new_sent) - 1 :
         InsertionOnly(sent, Prefix(new_sent, k)) =>
           /\ Scan(sent, Prefix(new_sent, k)) = Scan(sent, new_sent)
           /\ align_annotation_with_sentence(sent, Prefix(new_sent, k), annotations) = result
    /\ Scan(sent, new_sent) = <<>> => result = [exc |-> "none", anns |-> annotations]

\* -------------------------------------------------------------- SpecPipe
\* tree = etree.parse(path, parser); result = []. The sentence elements of the
\* document are read one per iteration of the loop over them; doc holds the
\* ones read so far.
InitPipe ==
  /\ doc = <<>>
  /\ records = <<>>
  /\ dir_exists = FALSE
  /\ files = <<>>
  /\ didx = 0
  /\ pc = "parse"
  /\ sent = <<>> /\ new_sent = <<>> /\ annotations = <<>>
  /\ AlignIdle

SetsRead == Len(Concat([k \in 1..Len(doc) |-> doc[k].sets]))

\* One iteration of the loop over the sentences, on the sentence element s.
ParseNext(s) ==
  /\ pc = "parse"
  /\ doc' = Append(doc, s)
  /\ records' = records \o ParseSentence(s)
  /\ UNCHANGED <<dir_exists, files, didx, pc>>
  /\ UNCHANGED alignVars

\* No sentence element is left: return result.
ParseReturn ==
  /\ pc = "parse"
  /\ pc' = "parsed"
  /\ UNCHANGED pipeVars
  /\ UNCHANGED alignVars

\* distribute_annotations(anns, output_dir), lines 182-184: existed is what
\* d.exists() answers; the directory is made unless it existed, and is there
\* afterwards either way.
EnsureDir(existed) ==
  /\ pc = "parsed"
  /\ dir_exists' = TRUE
  /\ didx' = 0
  /\ pc' = "distribute"
  /\ UNCHANGED <<doc, records, files>>
  /\ UNCHANGED alignVars

\* One iteration of the loop over the records.
DistributeRecord ==
  /\ pc = "distribute" /\ didx < Len(records)
  /\ files' = WriteRecord(files, records[didx + 1])
  /\ didx' = didx + 1
  /\ UNCHANGED <<doc, records, dir_exists, pc>>
  /\ UNCHANGED alignVars

DistributeDone ==
  /\ pc = "distribute" /\ didx = Len(records)
  /\ pc' = "distributed"
  /\ UNCHANGED pipeVars
  /\ UNCHANGED alignVars

NextPipe ==
  \/ /\ Len(doc) < MaxSents
     /\ \E s \in NextSentences(MaxSets - SetsRead, SetsRead + 1, Len(doc) + 1) : ParseNext(s)
  \/ ParseReturn
  \/ \E existed \in BOOLEAN : EnsureDir(existed)
  \/ DistributeRecord
  \/ DistributeDone

SpecPipe == InitPipe /\ [][NextPipe]_vars

\* --------------------------------------- properties of parser and distributor
\* result holds the records of the sentences read so far.
Parsed == pc \in {"parse", "parsed", "distribute", "distributed"}

AllAnns(recs) == Concat([k \in 1..Len(recs) |-> recs[k][2]])

\* The annotationSets of the document: <<sentence index, set index>>.
SetPositions == {<<si, ai>> \in (1..Len(doc)) \X (1..MaxSets + 1) : ai <= Len(doc[si].sets)}
SetAt(p) == doc[p[1]].sets[p[2]]
ManualPositions == {p \in SetPositions : SetAt(p).status = "MANUAL"}

\* The labels of an annotationSet under layers called name: <<layer index, label index>>.
LabelPositions(a, name) ==
  UNION {{<<li, k>> : k \in 1..Len(a.layers[li].labels)} :
           li \in {x \in 1..Len(a.layers) : a.layers[x].name = name}}
LabelAt(a, q) == a.layers[q[1]].labels[q[2]]

SingleTarget(a) == Cardinality(LabelPositions(a, "Target")) = 1

AnnsOf(a) == {k \in 1..Len(AllAnns(records)) : AllAnns(records)[k].id = a.ID}

\* C5: a MANUAL annotationSet whose Target layers hold zero labels, or two or
\* more, contributes no Annotation; one with exactly one Target label
\* contributes exactly one, whose target is that label's start and end as
\* integers.
C5_SingleTarget ==
  Parsed =>
    \A p \in ManualPositions :
      LET a == SetAt(p) IN
      IF SingleTarget(a)
      THEN /\ Cardinality(AnnsOf(a)) = 1
           /\ \A k \in AnnsOf(a) : \A q \in LabelPositions(a, "Target") :
                AllAnns(records)[k].target =
                  Target(int(LabelAt(a, q).start), int(LabelAt(a, q).end))
      ELSE AnnsOf(a) = {}

C5_Witness ==
  /\ Parsed
  /\ \E p \in ManualPositions :
       /\ Cardinality(LabelPositions(SetAt(p), "Target")) = 2
       /\ Len(SetAt(p).layers) = 3
  /\ \E p \in ManualPositions : SingleTarget(SetAt(p))
  /\ Len(AllAnns(records)) = 1
  /\ AllAnns(records)[1].target = Target(35, 38)

\* The FE labels that are kept: no itype attribute, and a start attribute.
ExplicitFE(a) ==
  {q \in LabelPositions(a, "FE") :
     "itype" \notin LabelAt(a, q).has /\ "start" \in LabelAt(a, q).has}

Before(q1, q2) == q1[1] < q2[1] \/ (q1[1] = q2[1] /\ q1[2] < q2[2])
Rank(a, q) == 1 + Cardinality({q1 \in ExplicitFE(a) : Before(q1, q)})

\* C6: the FE sequence of every annotation of the result holds exactly the
\* FE-layer labels without itype and with start, in document order.
C6_NullInstantiation ==
  Parsed =>
    \A p \in ManualPositions :
      LET a == SetAt(p) IN
      \A k \in AnnsOf(a) :
        LET fe == AllAnns(records)[k].FE IN
        /\ Len(fe) = Cardinality(ExplicitFE(a))
        /\ \A q \in ExplicitFE(a) :
             fe[Rank(a, q)] = FrameElement(int(LabelAt(a, q).start),
                                           int(LabelAt(a, q).end),
                                           LabelAt(a, q).name)

C6_Witness ==
  /\ Parsed
  /\ \E p \in ManualPositions :
       /\ AnnsOf(SetAt(p)) # {}
       /\ \E q \in LabelPositions(SetAt(p), "FE") :
            {"itype", "start"} \subseteq LabelAt(SetAt(p), q).has
       /\ \A k \in AnnsOf(SetAt(p)) :
            AllAnns(records)[k].FE = <<FrameElement(18, 28, "Recipient"), FrameElement(0, 3, "Donor")>>

\* The sentences with a MANUAL annotationSet that has exactly one Target label.
Retained == {si \in 1..Len(doc) :
               \E p \in ManualPositions : p[1] = si /\ SingleTarget(SetAt(p))}

\* C7: a sentence is in the result iff one of its MANUAL annotationSets has
\* exactly one Target label; an annotation whose FE list is empty is kept and
\* counts; every record has a non-empty annotation list.
C7_SentenceRetention ==
  Parsed =>
    /\ Len(records) = Cardinality(Retained)
    /\ {r[1] : r \in {records[k] : k \in 1..Len(records)}} = {doc[si].text : si \in Retained}
    /\ \A k \in 1..Len(records) : Len(records[k][2]) > 0
    /\ \A p \in ManualPositions :
         (SingleTarget(SetAt(p)) /\ ExplicitFE(SetAt(p)) = {}) =>
           \E k \in AnnsOf(SetAt(p)) : AllAnns(records)[k].FE = <<>>

C7_Witness ==
  /\ Parsed
  /\ Len(doc) = 2 /\ Len(records) = 1
  /\ Len(doc[1].sets) = 1 /\ ~SingleTarget(doc[1].sets[1])
  /\ records[1][1] = doc[2].text
  /\ records[1][2][1].FE = <<>>

AnnFiles == {n[1] : n \in {x \in DOMAIN files : x[2] = ".ann"}}
TxtFiles == {n[1] : n \in {x \in DOMAIN files : x[2] = ".txt"}}

====
